---- MODULE Spec2Model ----
(***************************************************************************)
(* Model of the bakery payment server (src/server.js): the two express     *)
(* handlers POST /api/payment-order and POST /api/payment-verify, the      *)
(* Firestore collections bakeryItems and orders they act on, and the       *)
(* Razorpay gateway they call.  A handler runs until its next await; the   *)
(* awaited store or gateway operation is one atomic step, taken together   *)
(* with the synchronous code that follows it up to the next await.         *)
(***************************************************************************)
EXTENDS Integers, Sequences, FiniteSets, TLC

\* ------------------------------------------------------------------ bounds
MaxRequests == 3     \* requests (of both endpoints) a behaviour may hold
InitQty == 2         \* bakeryItems/cake1.quantity before the first request

\* Handler invocations that can be in progress at once: a slot holds one
\* request from its arrival to its response and is then free for another.
Slots == {"s1", "s2"}

\* ------------------------------------------------------------- the stores
\* Ids a request may name; "ghost" has no document in bakeryItems.
ItemIds == {"cake1", "ghost"}
StoredItemIds == {"cake1"}
\* Ids a verify request may name; "gone" has no document in orders.
OrderDocIds == {"o1", "o2", "gone"}
StoredOrderIds == {"o1", "o2"}

VARIABLES
  bakeryItems,   \* collection bakeryItems: id -> [hasQuantity, quantity]
  orders,        \* collection orders: id -> document
  intentCount,   \* payment intents the gateway has issued
  intentDoc,     \* history: per intent, the order its client was paying for
  refundCalls,   \* calls of refundPayment
  payReq,        \* per slot, the payment-order handler invocation
  verReq,        \* per slot, the payment-verify handler invocation
  started,       \* requests that have arrived
  reserved,      \* history: per order and item, quantity decremented for it
  restocked      \* history: per order and item, quantity restocked for it

vars == <<bakeryItems, orders, intentCount, intentDoc, refundCalls, payReq,
          verReq, started, reserved, restocked>>

ZeroBag == [i \in ItemIds |-> 0]

\* ------------------------------------------------------ request body values
ReqQuantities == {-1, 0, 1}
Entries == {[id |-> "cake1", quantity |-> q] : q \in ReqQuantities}
           \cup {[id |-> "ghost", quantity |-> 1]}
\* The orderItems arrays a body may hold: empty, one entry, or the entry
\* cake1 x 1 followed by a second entry (the same id again among them).
ItemLists == {<<>>} \cup {<<e>> : e \in Entries}
             \cup {<<[id |-> "cake1", quantity |-> 1], f>> : f \in Entries}
Amounts == {[isNumber |-> TRUE, value |-> 0], [isNumber |-> TRUE, value |-> 1],
            [isNumber |-> FALSE, value |-> 0]}

\* Sum of the quantities a list names for item i.
RECURSIVE BagOf(_, _)
BagOf(items, i) ==
  IF items = <<>> THEN 0
  ELSE (IF Head(items).id = i THEN Head(items).quantity ELSE 0)
       + BagOf(Tail(items), i)

Bag(items) == [i \in ItemIds |-> BagOf(items, i)]

\* The list names a quantity that is not greater than 0.
NonPositive(items) == \E k \in 1..Len(items) : items[k].quantity <= 0

\* What res.status(s).json(...) sent: the HTTP status, which body it was, the
\* item id its message names and, for a payment order, the intent it carries.
NoResponse == [status |-> 0, kind |-> "none", item |-> "", intent |-> 0]
Response(s, k, i) == [status |-> s, kind |-> k, item |-> i, intent |-> 0]

\* -------------------------------------------------- stock reservation code
\* snap.data().quantity ?? 0
CurrentQty(store, id) ==
  IF store[id].hasQuantity THEN store[id].quantity ELSE 0

\* The loop body without its quantity test.
StockCheckItemExistsOnly(store, item) ==
  IF item.id \notin DOMAIN store
    THEN [available |-> FALSE, kind |-> "not-found", item |-> item.id]
  ELSE [available |-> TRUE, kind |-> "", item |-> ""]

\* The loop body that skips its quantity test when the field is missing.
StockCheckItemSkipsMissing(store, item) ==
  IF item.id \notin DOMAIN store
    THEN [available |-> FALSE, kind |-> "not-found", item |-> item.id]
  ELSE IF store[item.id].hasQuantity /\ store[item.id].quantity < item.quantity
    THEN [available |-> FALSE, kind |-> "out-of-stock", item |-> item.id]
  ELSE [available |-> TRUE, kind |-> "", item |-> ""]

\* One iteration of checkStockAvailability's loop, on the snapshot just read.
StockCheckItem(store, item) ==
  IF item.id \notin DOMAIN store
    THEN [available |-> FALSE, kind |-> "not-found", item |-> item.id]
  ELSE IF CurrentQty(store, item.id) < item.quantity
    THEN [available |-> FALSE, kind |-> "out-of-stock", item |-> item.id]
  ELSE [available |-> TRUE, kind |-> "", item |-> ""]

\* batch.update needs the document to exist; one missing document fails the
\* whole commit and nothing is written.
BatchCommits(store, items) ==
  \A k \in 1..Len(items) : items[k].id \in DOMAIN store

\* A plain write of n to the quantity field in place of the increment.
IncrementOverwrites(store, id, n) ==
  [store EXCEPT ![id] = [hasQuantity |-> TRUE, quantity |-> n]]

\* FieldValue.increment(n) on the quantity field (a missing field counts 0).
Increment(store, id, n) ==
  [store EXCEPT ![id] = [hasQuantity |-> TRUE,
                         quantity |-> CurrentQty(store, id) + n]]

\* The writes of one batch, applied in the order they were added.
RECURSIVE ApplyBatch(_, _, _)
ApplyBatch(store, items, sign) ==
  IF items = <<>> THEN store
  ELSE ApplyBatch(Increment(store, Head(items).id, sign * Head(items).quantity),
                  Tail(items), sign)

\* decrementStock that puts only the first entry into the batch.
DecrementStockFirstOnly(store, items) ==
  IF items = <<>> THEN store ELSE ApplyBatch(store, <<Head(items)>>, -1)

DecrementStock(store, items) == ApplyBatch(store, items, -1)

\* restockItems with the sign of decrementStock.
RestockItemsNegated(store, items) == ApplyBatch(store, items, -1)

RestockItems(store, items) == ApplyBatch(store, items, 1)

\* ------------------------------------------------------ signature verifier
RAZORPAY_KEY_SECRET == "K"
OtherKey == "X"

\* HMAC-SHA256(key, msg).digest("hex"), taken as collision free: the digest
\* determines the key and the message.
Hmac(key, msg) == <<key>> \o msg

\* Ids are strings, written as sequences of characters.
IntentId(n) == <<"o", ToString(n)>>
PaymentId(n) == <<"p", ToString(n)>>

GeneratedSignature(order_id, payment_id) ==
  Hmac(RAZORPAY_KEY_SECRET, order_id \o <<"|">> \o payment_id)

\* The comparison with === in place of !==.
SignatureMismatchInverted(order_id, payment_id, signature) ==
  GeneratedSignature(order_id, payment_id) = signature

SignatureMismatch(order_id, payment_id, signature) ==
  GeneratedSignature(order_id, payment_id) # signature

\* (orderData.items || []).map(item => ({id: item.productId || item.id, ...}))
MapOrderItems(items) ==
  [k \in 1..Len(items) |->
     [id |-> IF items[k].productId # "" THEN items[k].productId ELSE items[k].id,
      quantity |-> items[k].quantity]]

\* ------------------------------------------------------------ initial state
\* The orders collection as the order-placement flow left it: pending orders
\* whose items name the product by productId (o1) or by id (o2).
InitOrders ==
  [o \in StoredOrderIds |->
     [items |-> IF o = "o1"
                  THEN <<[productId |-> "cake1", id |-> "", quantity |-> 1]>>
                  ELSE <<[productId |-> "", id |-> "cake1", quantity |-> 1]>>,
      paymentStatus |-> "pending",
      orderStatus |-> "pending",
      razorpayPaymentId |-> <<>>,
      cancellationReason |-> ""]]

IdlePay ==
  [pc |-> "idle", amount |-> [isNumber |-> FALSE, value |-> 0],
   isArray |-> FALSE, orderItems |-> <<>>, k |-> 0, response |-> NoResponse,
   doc |-> "", applied |-> ZeroBag, gatewayCalls |-> 0, badQty |-> FALSE]

\* The response is sent and the handler returns: its locals are gone.  What
\* stays is the response and the history of what the request did.
PayDone(req, response) ==
  [IdlePay EXCEPT !.pc = "done", !.response = response,
                  !.applied = req.applied, !.gatewayCalls = req.gatewayCalls,
                  !.badQty = req.badQty]

IdleVerify ==
  [pc |-> "idle", razorpay_order_id |-> <<>>, razorpay_payment_id |-> <<>>,
   razorpay_signature |-> <<>>, orderDocId |-> "", orderItems |-> <<>>,
   response |-> NoResponse, late |-> FALSE]

Init ==
  /\ bakeryItems = [i \in StoredItemIds |->
                      [hasQuantity |-> TRUE, quantity |-> InitQty]]
  /\ orders = InitOrders
  /\ intentCount = 0
  /\ intentDoc = <<>>
  /\ refundCalls = 0
  /\ payReq = [s \in Slots |-> IdlePay]
  /\ verReq = [s \in Slots |-> IdleVerify]
  /\ started = 0
  /\ reserved = [o \in StoredOrderIds |-> ZeroBag]
  /\ restocked = [o \in StoredOrderIds |-> ZeroBag]

\* A slot is free before its first request and after each response.
Free(s) == payReq[s].pc \in {"idle", "done"} /\ verReq[s].pc \in {"idle", "done"}

\* ------------------------------------------------- POST /api/payment-order
\* !amount || typeof amount !== "number" || amount <= 0
AmountInvalid(amount) == ~amount.isNumber \/ amount.value <= 0

\* !Array.isArray(orderItems) || orderItems.length === 0
ItemsInvalid(isArray, orderItems) == ~isArray \/ Len(orderItems) = 0

\* The request arrives; the body is validated and the first read is issued.
PayStart(s) ==
  /\ Free(s)
  /\ started < MaxRequests
  /\ started' = started + 1
  /\ \E amount \in Amounts, isArray \in BOOLEAN, items \in ItemLists :
       /\ ~isArray => items = <<>>
       /\ LET req == [IdlePay EXCEPT !.amount = amount, !.isArray = isArray,
                                   !.orderItems = items,
                                   !.badQty = NonPositive(items)]
          IN payReq' = [payReq EXCEPT ![s] =
               IF AmountInvalid(amount)
                 THEN PayDone(req, Response(400, "amount-required", ""))
               ELSE IF ItemsInvalid(isArray, items)
                 THEN PayDone(req, Response(400, "items-required", ""))
               ELSE [req EXCEPT !.pc = "check", !.k = 1]]
  /\ verReq' = [verReq EXCEPT ![s] = IdleVerify]
  /\ UNCHANGED <<bakeryItems, orders, intentCount, intentDoc, refundCalls,
                 reserved, restocked>>

\* await itemRef.get() for item k of the loop, and the tests on the snapshot.
PayCheckItem(s) ==
  /\ payReq[s].pc = "check"
  /\ LET req == payReq[s]
         res == StockCheckItem(bakeryItems, req.orderItems[req.k])
     IN payReq' = [payReq EXCEPT ![s] =
          IF ~res.available
            THEN PayDone(req, Response(400, res.kind, res.item))
          ELSE IF req.k < Len(req.orderItems)
            THEN [req EXCEPT !.k = req.k + 1]
          ELSE [req EXCEPT !.pc = "decrement", !.k = 0]]
  /\ UNCHANGED <<bakeryItems, orders, intentCount, intentDoc, refundCalls,
                 verReq, started, reserved, restocked>>

\* await decrementStock(orderItems): the batch commits, or throws into catch.
\* doc is the order the client is paying for (the handler never sees it).
PayDecrement(s) ==
  /\ payReq[s].pc = "decrement"
  /\ LET req == payReq[s]
     IN IF BatchCommits(bakeryItems, req.orderItems)
          THEN \E doc \in StoredOrderIds :
               /\ bakeryItems' = DecrementStock(bakeryItems, req.orderItems)
               /\ payReq' = [payReq EXCEPT ![s] =
                    [req EXCEPT !.pc = "create", !.doc = doc,
                                !.applied = Bag(req.orderItems)]]
               /\ reserved' = [reserved EXCEPT ![doc] =
                    [i \in ItemIds |-> reserved[doc][i] + BagOf(req.orderItems, i)]]
          ELSE /\ payReq' = [payReq EXCEPT ![s] =
                    PayDone(req, Response(500, "server-error", ""))]
               /\ UNCHANGED <<bakeryItems, reserved>>
  /\ UNCHANGED <<orders, intentCount, intentDoc, refundCalls, verReq, started,
                 restocked>>

\* await razorpay.orders.create(...) returns the payment order.
PayCreateOk(s) ==
  /\ payReq[s].pc = "create"
  /\ intentCount' = intentCount + 1
  /\ intentDoc' = Append(intentDoc, payReq[s].doc)
  /\ payReq' = [payReq EXCEPT ![s] =
       PayDone([payReq[s] EXCEPT !.gatewayCalls = 1],
               [Response(200, "payment-order", "")
                  EXCEPT !.intent = intentCount + 1])]
  /\ UNCHANGED <<bakeryItems, orders, refundCalls, verReq, started,
                 reserved, restocked>>

\* await razorpay.orders.create(...) rejects: the catch block answers 500.
PayCreateFails(s) ==
  /\ payReq[s].pc = "create"
  /\ payReq' = [payReq EXCEPT ![s] =
       PayDone([payReq[s] EXCEPT !.gatewayCalls = 1],
               Response(500, "server-error", ""))]
  /\ UNCHANGED <<bakeryItems, orders, intentCount, intentDoc, refundCalls,
                 verReq, started, reserved, restocked>>

PayNext == \E s \in Slots :
  \/ PayStart(s)
  \/ PayCheckItem(s)
  \/ PayDecrement(s)
  \/ PayCreateOk(s)
  \/ PayCreateFails(s)

\* ------------------------------------------------ POST /api/payment-verify
\* What the gateway hands the client that paid intent n: the ids and the
\* signature it computed with the key secret.
Genuine(n) ==
  [razorpay_order_id |-> IntentId(n), razorpay_payment_id |-> PaymentId(n),
   razorpay_signature |-> GeneratedSignature(IntentId(n), PaymentId(n))]

\* Claims a client can make without the key secret: a signature computed with
\* another key, and a genuine signature sent with another payment id.
Forged(issued) ==
  {[razorpay_order_id |-> IntentId(1), razorpay_payment_id |-> PaymentId(1),
    razorpay_signature |-> Hmac(OtherKey, IntentId(1) \o <<"|">> \o PaymentId(1))]}
  \cup {[Genuine(n) EXCEPT !.razorpay_payment_id = PaymentId(n + 1)] :
          n \in 1..issued}

\* Bodies with one of the required fields missing.
Incomplete ==
  {[Genuine(1) EXCEPT !.razorpay_order_id = <<>>],
   [Genuine(1) EXCEPT !.razorpay_payment_id = <<>>],
   [Genuine(1) EXCEPT !.razorpay_signature = <<>>]}

VerifyBodies(issued) ==
  {[claim |-> c, orderDocId |-> d] :
     c \in {Genuine(n) : n \in 1..issued} \cup Forged(issued),
     d \in OrderDocIds}
  \cup {[claim |-> c, orderDocId |-> "o1"] : c \in Incomplete}
  \cup {[claim |-> Genuine(1), orderDocId |-> ""]}

\* History: the order the request names was already in a terminal state
\* (confirmed/confirmed or cancelled/cancelled) when the request arrived.
Terminal(o) ==
  /\ o \in DOMAIN orders
  /\ \/ orders[o].paymentStatus = "confirmed" /\ orders[o].orderStatus = "confirmed"
     \/ orders[o].paymentStatus = "cancelled" /\ orders[o].orderStatus = "cancelled"

\* !razorpay_order_id || !razorpay_payment_id || !razorpay_signature || !orderDocId
FieldsMissing(req) ==
  \/ req.razorpay_order_id = <<>>
  \/ req.razorpay_payment_id = <<>>
  \/ req.razorpay_signature = <<>>
  \/ req.orderDocId = ""

VerifyDone(req, response) == [req EXCEPT !.pc = "done", !.orderItems = <<>>,
                                         !.response = response]

\* The request arrives; the fields are checked, the signature is compared and
\* the read of the order is issued.
VerifyStart(s) ==
  /\ Free(s)
  /\ started < MaxRequests
  /\ started' = started + 1
  /\ \E body \in VerifyBodies(intentCount) :
       LET req == [IdleVerify EXCEPT
                     !.razorpay_order_id = body.claim.razorpay_order_id,
                     !.razorpay_payment_id = body.claim.razorpay_payment_id,
                     !.razorpay_signature = body.claim.razorpay_signature,
                     !.orderDocId = body.orderDocId,
                     !.late = Terminal(body.orderDocId)]
       IN verReq' = [verReq EXCEPT ![s] =
            IF FieldsMissing(req)
              THEN VerifyDone(req, Response(400, "missing-fields", ""))
            ELSE IF SignatureMismatch(req.razorpay_order_id,
                                      req.razorpay_payment_id,
                                      req.razorpay_signature)
              THEN [req EXCEPT !.pc = "mismatch-get"]
            ELSE [req EXCEPT !.pc = "get"]]
  /\ payReq' = [payReq EXCEPT ![s] = IdlePay]
  /\ UNCHANGED <<bakeryItems, orders, intentCount, intentDoc, refundCalls,
                 reserved, restocked>>

\* Signature mismatch: await orderRef.get(); an existing order's items are
\* mapped and the restock batch is built.
VerifyMismatchGet(s) ==
  /\ verReq[s].pc = "mismatch-get"
  /\ LET req == verReq[s]
     IN verReq' = [verReq EXCEPT ![s] =
          IF req.orderDocId \in DOMAIN orders
            THEN [req EXCEPT !.pc = "restock",
                    !.orderItems = MapOrderItems(orders[req.orderDocId].items)]
          ELSE [req EXCEPT !.pc = "cancel"]]
  /\ UNCHANGED <<bakeryItems, orders, intentCount, intentDoc, refundCalls,
                 payReq, started, reserved, restocked>>

\* await restockItems(orderItems): the batch commits, or throws into catch.
VerifyRestock(s) ==
  /\ verReq[s].pc = "restock"
  /\ LET req == verReq[s]
     IN IF BatchCommits(bakeryItems, req.orderItems)
          THEN /\ bakeryItems' = RestockItems(bakeryItems, req.orderItems)
               /\ verReq' = [verReq EXCEPT ![s] = [req EXCEPT !.pc = "cancel"]]
               /\ restocked' = [restocked EXCEPT ![req.orderDocId] =
                    [i \in ItemIds |->
                       restocked[req.orderDocId][i] + BagOf(req.orderItems, i)]]
          ELSE /\ verReq' = [verReq EXCEPT ![s] =
                    VerifyDone(req, Response(500, "server-error", ""))]
               /\ UNCHANGED <<bakeryItems, restocked>>
  /\ UNCHANGED <<orders, intentCount, intentDoc, refundCalls, payReq, started,
                 reserved>>

\* await orderRef.update({paymentStatus: "cancelled", orderStatus:
\* "cancelled"}) and the 400 response; update throws when there is no document.
VerifyCancel(s) ==
  /\ verReq[s].pc = "cancel"
  /\ LET req == verReq[s]
     IN IF req.orderDocId \in DOMAIN orders
          THEN /\ orders' = [orders EXCEPT ![req.orderDocId] =
                    [@ EXCEPT !.paymentStatus = "cancelled",
                              !.orderStatus = "cancelled"]]
               /\ verReq' = [verReq EXCEPT ![s] =
                    VerifyDone(req, Response(400, "cancelled", ""))]
          ELSE /\ verReq' = [verReq EXCEPT ![s] =
                    VerifyDone(req, Response(500, "server-error", ""))]
               /\ UNCHANGED orders
  /\ UNCHANGED <<bakeryItems, intentCount, intentDoc, refundCalls, payReq,
                 started, reserved, restocked>>

\* The read without the test of orderSnap.exists: orderSnap.data() is
\* undefined for a missing document and reading its items throws into catch.
VerifyGetNoExistsTest(s) ==
  /\ verReq[s].pc = "get"
  /\ LET req == verReq[s]
     IN verReq' = [verReq EXCEPT ![s] =
          IF req.orderDocId \notin DOMAIN orders
            THEN VerifyDone(req, Response(500, "server-error", ""))
          ELSE [req EXCEPT !.pc = "confirm",
                  !.orderItems = MapOrderItems(orders[req.orderDocId].items)]]
  /\ UNCHANGED <<bakeryItems, orders, intentCount, intentDoc, refundCalls,
                 payReq, started, reserved, restocked>>

\* Signature matches: await orderRef.get(); 404 when there is no document.
VerifyGet(s) ==
  /\ verReq[s].pc = "get"
  /\ LET req == verReq[s]
     IN verReq' = [verReq EXCEPT ![s] =
          IF req.orderDocId \notin DOMAIN orders
            THEN VerifyDone(req, Response(404, "order-not-found", ""))
          ELSE [req EXCEPT !.pc = "confirm",
                  !.orderItems = MapOrderItems(orders[req.orderDocId].items)]]
  /\ UNCHANGED <<bakeryItems, orders, intentCount, intentDoc, refundCalls,
                 payReq, started, reserved, restocked>>

\* The confirm step of a handler that decrements the stock again before it
\* confirms the order.
VerifyConfirmDecrements(s) ==
  /\ verReq[s].pc = "confirm"
  /\ LET req == verReq[s]
     IN /\ req.orderDocId \in DOMAIN orders
        /\ BatchCommits(bakeryItems, req.orderItems)
        /\ bakeryItems' = DecrementStock(bakeryItems, req.orderItems)
        /\ orders' = [orders EXCEPT ![req.orderDocId] =
             [@ EXCEPT !.paymentStatus = "confirmed",
                       !.orderStatus = "confirmed",
                       !.razorpayPaymentId = req.razorpay_payment_id]]
        /\ verReq' = [verReq EXCEPT ![s] =
             VerifyDone(req, Response(200, "success", ""))]
  /\ UNCHANGED <<intentCount, intentDoc, refundCalls, payReq, started, reserved,
                 restocked>>

\* The confirm step with an update that writes paymentStatus alone.
VerifyConfirmPaymentOnly(s) ==
  /\ verReq[s].pc = "confirm"
  /\ LET req == verReq[s]
     IN /\ req.orderDocId \in DOMAIN orders
        /\ orders' = [orders EXCEPT ![req.orderDocId] =
             [@ EXCEPT !.paymentStatus = "confirmed",
                       !.razorpayPaymentId = req.razorpay_payment_id]]
        /\ verReq' = [verReq EXCEPT ![s] =
             VerifyDone(req, Response(200, "success", ""))]
  /\ UNCHANGED <<bakeryItems, intentCount, intentDoc, refundCalls, payReq,
                 started, reserved, restocked>>

\* await orderRef.update({paymentStatus: "confirmed", orderStatus:
\* "confirmed", razorpayPaymentId}) and the 200 response.
VerifyConfirm(s) ==
  /\ verReq[s].pc = "confirm"
  /\ LET req == verReq[s]
     IN IF req.orderDocId \in DOMAIN orders
          THEN /\ orders' = [orders EXCEPT ![req.orderDocId] =
                    [@ EXCEPT !.paymentStatus = "confirmed",
                              !.orderStatus = "confirmed",
                              !.razorpayPaymentId = req.razorpay_payment_id]]
               /\ verReq' = [verReq EXCEPT ![s] =
                    VerifyDone(req, Response(200, "success", ""))]
          ELSE /\ verReq' = [verReq EXCEPT ![s] =
                    VerifyDone(req, Response(500, "server-error", ""))]
               /\ UNCHANGED orders
  /\ UNCHANGED <<bakeryItems, intentCount, intentDoc, refundCalls, payReq,
                 started, reserved, restocked>>

VerifyNext == \E s \in Slots :
  \/ VerifyStart(s)
  \/ VerifyMismatchGet(s)
  \/ VerifyRestock(s)
  \/ VerifyCancel(s)
  \/ VerifyGet(s)
  \/ VerifyConfirm(s)

Next == PayNext \/ VerifyNext

Spec == Init /\ [][Next]_vars

\* ----------------------------------------------------- notions of the claims
\* Quantity of item i the persisted order o asks for.
Required(o, i) == BagOf(MapOrderItems(orders[o].items), i)

\* Quantity of item i decremented for order o and not restocked since.
Held(o, i) == reserved[o][i] - restocked[o][i]

BothConfirmed(o) ==
  orders[o].paymentStatus = "confirmed" /\ orders[o].orderStatus = "confirmed"

BothCancelled(o) ==
  orders[o].paymentStatus = "cancelled" /\ orders[o].orderStatus = "cancelled"

\* A payment-order request reserved exactly the order's items for it.
ReservedOnce(o) == \A i \in ItemIds : reserved[o][i] = Required(o, i)

\* The signature the gateway computes for the ids of request s.
ExpectedSignature(s) ==
  <<RAZORPAY_KEY_SECRET>> \o verReq[s].razorpay_order_id \o <<"|">>
    \o verReq[s].razorpay_payment_id

\* C1: an order that is confirmed/confirmed still has the stock that was
\* decremented for it at intent creation: none of it has been restocked.
C1_ConfirmedOrderKeepsItsStock ==
  \A o \in StoredOrderIds :
    (BothConfirmed(o) /\ ReservedOnce(o)) =>
      \A i \in ItemIds : Held(o, i) >= Required(o, i)

\* C2: no stock item's quantity is ever negative.
C2_QuantityNeverNegative ==
  \A i \in DOMAIN bakeryItems : CurrentQty(bakeryItems, i) >= 0

\* C3: a payment-order request whose gateway call failed has released the
\* stock it decremented by the time it has answered.
C3_GatewayFailureReleasesStock ==
  \A s \in Slots :
    (payReq[s].pc = "done" /\ payReq[s].gatewayCalls = 1
       /\ ~payReq[s].badQty
       /\ payReq[s].response.kind # "payment-order") =>
      payReq[s].applied = ZeroBag

\* C4: for an existing order whose stock a payment-order request reserved,
\* a verify request with a wrong signature restocks every item of the order by
\* the reserved quantity (the quantity is what it would be without the
\* reservation), then sets the order cancelled/cancelled and answers 400
\* "cancelled", and calls no refund.
C4_ForgedClaimReleasesAndCancels ==
  [][\A s \in Slots :
       LET req == verReq[s]
           o == req.orderDocId
       IN /\ (req.pc = "mismatch-get" /\ o \in DOMAIN orders
                /\ verReq'[s] # req) =>
               verReq'[s].pc = "restock"
          /\ (req.pc = "restock" /\ ReservedOnce(o)
                /\ (\A i \in ItemIds : Held(o, i) = Required(o, i))
                /\ verReq'[s] # req) =>
               /\ verReq'[s].pc = "cancel"
               /\ \A i \in DOMAIN bakeryItems :
                    CurrentQty(bakeryItems', i)
                      = CurrentQty(bakeryItems, i) + Held(o, i)
               /\ \A i \in ItemIds : restocked'[o][i] = reserved'[o][i]
               /\ refundCalls' = refundCalls
          /\ (req.pc = "cancel" /\ o \in DOMAIN orders /\ verReq'[s] # req) =>
               /\ orders'[o].paymentStatus = "cancelled"
               /\ orders'[o].orderStatus = "cancelled"
               /\ verReq'[s].pc = "done"
               /\ verReq'[s].response.status = 400
               /\ verReq'[s].response.kind = "cancelled"
               /\ bakeryItems' = bakeryItems
               /\ refundCalls' = refundCalls
    ]_vars

\* A forged claim for o1, whose stock was reserved, has been answered: the
\* order is cancelled and cake1 is back at its quantity before the reservation.
C4_Witness ==
  \E s \in Slots :
    /\ verReq[s].pc = "done"
    /\ verReq[s].orderDocId = "o1"
    /\ verReq[s].razorpay_signature # ExpectedSignature(s)
    /\ verReq[s].response.kind = "cancelled"
    /\ reserved["o1"]["cake1"] = 1
    /\ restocked["o1"]["cake1"] = 1
    /\ BothCancelled("o1")
    /\ bakeryItems["cake1"].quantity = InitQty
    /\ refundCalls = 0

\* C5: a verify request that arrives when its order is already
\* confirmed/confirmed or cancelled/cancelled changes neither status of the
\* order nor any stock quantity.
C5_TerminalStatesAreFinal ==
  [][\A s \in Slots :
       (verReq[s].late /\ verReq[s].pc # "done" /\ verReq'[s] # verReq[s]) =>
         /\ orders'[verReq[s].orderDocId].paymentStatus
              = orders[verReq[s].orderDocId].paymentStatus
         /\ orders'[verReq[s].orderDocId].orderStatus
              = orders[verReq[s].orderDocId].orderStatus
         /\ bakeryItems' = bakeryItems
    ]_vars

\* C6: for an order whose items were reserved once, the quantity restocked
\* for it never exceeds the quantity reserved for it.
C6_ReleaseAtMostOnce ==
  \A o \in StoredOrderIds :
    ReservedOnce(o) => \A i \in ItemIds : restocked[o][i] <= reserved[o][i]

\* C7: a status of an order becomes confirmed only in the step of a verify
\* request for that order whose signature is the HMAC of its ids; a request
\* with any other signature never writes confirmed.
C7_ConfirmedOnlyByValidSignature ==
  /\ [](\A s \in Slots :
          (verReq[s].pc # "idle"
             /\ verReq[s].razorpay_signature # ExpectedSignature(s)) =>
            /\ verReq[s].pc \notin {"get", "confirm"}
            /\ verReq[s].response.kind # "success")
  /\ [][\A o \in StoredOrderIds :
       (orders'[o] # orders[o]
          /\ (orders'[o].paymentStatus = "confirmed"
                \/ orders'[o].orderStatus = "confirmed")) =>
         \E s \in Slots :
           /\ verReq[s].pc \notin {"idle", "done"}
           /\ verReq'[s].pc = "done"
           /\ verReq[s].orderDocId = o
           /\ verReq[s].razorpay_signature = ExpectedSignature(s)
    ]_vars

\* A verify request with the gateway's signature has confirmed its order.
C7_Witness ==
  \E s \in Slots :
    /\ verReq[s].pc = "done"
    /\ verReq[s].response.kind = "success"
    /\ verReq[s].razorpay_signature = ExpectedSignature(s)
    /\ BothConfirmed(verReq[s].orderDocId)

\* C8: whenever the payment of an order is confirmed while the stock that was
\* reserved for it is no longer held, the order is cancelled with a
\* cancellationReason and a refund has been attempted.
C8_CapturedWithoutStockIsRefunded ==
  \A o \in StoredOrderIds :
    (orders[o].paymentStatus = "confirmed" /\ ReservedOnce(o)
       /\ \E i \in ItemIds : Held(o, i) < Required(o, i)) =>
      /\ orders[o].orderStatus = "cancelled"
      /\ orders[o].cancellationReason # ""
      /\ refundCalls > 0

\* C9: when the availability check reads an item that has no document or
\* whose quantity is below the requested one, the request ends there with a
\* 400 that names the item, having changed no quantity and called no gateway;
\* and no request answered that way has touched the stock or the gateway.
C9_InsufficientStockHasNoEffect ==
  /\ [](\A s \in Slots :
          payReq[s].response.kind \in {"not-found", "out-of-stock"} =>
            /\ payReq[s].pc = "done"
            /\ payReq[s].response.status = 400
            /\ payReq[s].applied = ZeroBag
            /\ payReq[s].gatewayCalls = 0)
  /\ [][\A s \in Slots :
          LET req == payReq[s]
              item == req.orderItems[req.k]
          IN (req.pc = "check" /\ payReq'[s] # req
                /\ (item.id \notin DOMAIN bakeryItems
                      \/ CurrentQty(bakeryItems, item.id) < item.quantity)) =>
               /\ payReq'[s].pc = "done"
               /\ payReq'[s].response.status = 400
               /\ payReq'[s].response.kind \in {"not-found", "out-of-stock"}
               /\ payReq'[s].response.item = item.id
               /\ payReq'[s].applied = ZeroBag
               /\ payReq'[s].gatewayCalls = 0
               /\ bakeryItems' = bakeryItems
               /\ intentCount' = intentCount
       ]_vars

\* One request was refused for an item without a document, another for an
\* item out of stock; neither changed the stock or reached the gateway.
C9_Witness ==
  \E s, t \in Slots :
    /\ payReq[s].pc = "done" /\ payReq[t].pc = "done"
    /\ payReq[s].response = Response(400, "not-found", "ghost")
    /\ payReq[t].response = Response(400, "out-of-stock", "cake1")
    /\ payReq[s].applied = ZeroBag /\ payReq[t].applied = ZeroBag
    /\ payReq[s].gatewayCalls = 0 /\ payReq[t].gatewayCalls = 0

\* C10: a payment-order request that names a quantity not greater than 0 is
\* answered 400 and has changed no quantity and created no intent.
C10_NonPositiveQuantityRejected ==
  \A s \in Slots :
    (payReq[s].pc # "idle" /\ payReq[s].badQty) =>
      /\ payReq[s].applied = ZeroBag
      /\ payReq[s].gatewayCalls = 0
      /\ payReq[s].pc = "done" => payReq[s].response.status = 400

\* Sum of the quantities a list names.
RECURSIVE SumOf(_)
SumOf(items) ==
  IF items = <<>> THEN 0 ELSE Head(items).quantity + SumOf(Tail(items))

\* Sum of the quantities of all stock items of a store.
RECURSIVE TotalQty(_, _)
TotalQty(store, ids) ==
  IF ids = {} THEN 0
  ELSE LET i == CHOOSE x \in ids : TRUE
       IN CurrentQty(store, i) + TotalQty(store, ids \ {i})

\* C11: an entry whose item exists with at least the requested quantity
\* passes the availability check (the loop goes on, and after the last entry
\* the request reserves); the reserve lowers every item's quantity by exactly
\* the quantity requested for it, the total by the sum of the requested ones.
C11_AvailableItemsAreReservedExactly ==
  [][\A s \in Slots :
       LET req == payReq[s]
           item == req.orderItems[req.k]
       IN /\ (req.pc = "check" /\ payReq'[s] # req
                /\ item.id \in DOMAIN bakeryItems
                /\ CurrentQty(bakeryItems, item.id) >= item.quantity) =>
               /\ payReq'[s].response = NoResponse
               /\ payReq'[s].pc =
                    IF req.k < Len(req.orderItems) THEN "check" ELSE "decrement"
               /\ bakeryItems' = bakeryItems
          /\ (req.pc = "decrement" /\ payReq'[s] # req
                /\ \A k \in 1..Len(req.orderItems) :
                     req.orderItems[k].id \in DOMAIN bakeryItems) =>
               /\ payReq'[s].pc = "create"
               /\ \A i \in DOMAIN bakeryItems :
                    CurrentQty(bakeryItems', i)
                      = CurrentQty(bakeryItems, i) - BagOf(req.orderItems, i)
               /\ TotalQty(bakeryItems, DOMAIN bakeryItems)
                    - TotalQty(bakeryItems', DOMAIN bakeryItems)
                    = SumOf(req.orderItems)
    ]_vars

\* A request for cake1 x 1 twice was found available and has reserved: the
\* quantity is lower by 2.
C11_Witness ==
  \E s \in Slots :
    /\ payReq[s].pc = "create"
    /\ payReq[s].orderItems = <<[id |-> "cake1", quantity |-> 1],
                                [id |-> "cake1", quantity |-> 1]>>
    /\ bakeryItems["cake1"].quantity = InitQty - 2

C14_ValidClaimForMissingOrder ==
  [][\A s \in Slots :
       LET req == verReq[s]
       IN (req.pc \notin {"idle", "done"}
             /\ req.orderDocId \notin DOMAIN orders
             /\ req.razorpay_signature = ExpectedSignature(s)
             /\ verReq'[s] # req) =>
            /\ verReq'[s].pc = "done"
            /\ verReq'[s].response = Response(404, "order-not-found", "")
            /\ orders' = orders
            /\ bakeryItems' = bakeryItems
            /\ restocked' = restocked
    ]_vars

\* A valid claim that names the missing order was answered 404 while the
\* reservation of cake1 x 1 that led to it is still in place.
C14_Witness ==
  \E s \in Slots :
    /\ verReq[s].pc = "done"
    /\ verReq[s].orderDocId = "gone"
    /\ verReq[s].razorpay_signature = ExpectedSignature(s)
    /\ verReq[s].response = Response(404, "order-not-found", "")
    /\ reserved["o1"]["cake1"] = 1
    /\ restocked["o1"]["cake1"] = 0
    /\ orders = InitOrders
    /\ bakeryItems["cake1"].quantity = InitQty - 1

Decremented(i) == reserved["o1"][i] + reserved["o2"][i]
Restocked(i) == restocked["o1"][i] + restocked["o2"][i]

\* C16: under every interleaving of the requests, an item's quantity is its
\* initial quantity minus the sum of the quantities of all committed decrement
\* batches (plus the sum of the committed restock batches): no decrement is
\* lost and none is applied twice.
C16_DecrementsSerialize ==
  \A i \in StoredItemIds :
    CurrentQty(bakeryItems, i) = InitQty - Decremented(i) + Restocked(i)

\* Two payment-order requests in flight at the same time have both committed
\* their decrement of cake1 x 1.
C16_Witness ==
  /\ payReq["s1"].pc = "create" /\ payReq["s1"].applied["cake1"] = 1
  /\ payReq["s2"].pc = "create" /\ payReq["s2"].applied["cake1"] = 1
  /\ Restocked("cake1") = 0
  /\ bakeryItems["cake1"].quantity = InitQty - 2

\* C17: every verify request with all four fields and a signature that does
\* not match ends with the 400 "cancelled" answer or with order-not-found,
\* also when the order document it names does not exist.
C17_MismatchEndsMapped ==
  \A s \in Slots :
    (verReq[s].pc = "done" /\ ~FieldsMissing(verReq[s])
       /\ verReq[s].razorpay_signature # ExpectedSignature(s)) =>
      verReq[s].response.kind \in {"cancelled", "order-not-found"}

\* Larger of the quantity held for order o and zero.
HeldNow(o, i) == IF Held(o, i) > 0 THEN Held(o, i) ELSE 0

\* C19: for every item, the quantity plus what the orders' reservations still
\* hold is the initial quantity, and no order has had more restocked than was
\* decremented for it (stated for the states in which the decrements made for
\* each order add up to a quantity that is not negative).
C19_StockConserved ==
  \A i \in StoredItemIds :
    (\A o \in StoredOrderIds : reserved[o][i] >= 0) =>
      /\ \A o \in StoredOrderIds : restocked[o][i] <= reserved[o][i]
      /\ CurrentQty(bakeryItems, i) + HeldNow("o1", i) + HeldNow("o2", i)
           = InitQty

\* C20: every step that sets an order to confirmed is taken by a verify
\* request whose razorpay_order_id is an intent that was created for that
\* same order.
C20_ConfirmedByOwnIntent ==
  [][\A o \in DOMAIN orders :
       (orders'[o] # orders[o] /\ orders'[o].paymentStatus = "confirmed") =>
         \E s \in Slots :
           /\ verReq[s].pc = "confirm"
           /\ verReq'[s].pc = "done"
           /\ verReq[s].orderDocId = o
           /\ \E n \in 1..intentCount :
                /\ verReq[s].razorpay_order_id = IntentId(n)
                /\ intentDoc[n] = o
    ]_vars

\* ------------------------------------------- reserve and release on their own
\* decrementStock and restockItems applied to item lists of ItemLists, by two
\* callers whose reservations and releases interleave.  A slot at "create"
\* holds the list it has reserved and not released.
StockReserve(s) ==
  /\ Free(s)
  /\ started < MaxRequests
  /\ started' = started + 1
  /\ \E items \in ItemLists :
       /\ BatchCommits(bakeryItems, items)
       /\ bakeryItems' = DecrementStock(bakeryItems, items)
       /\ payReq' = [payReq EXCEPT ![s] =
            [IdlePay EXCEPT !.pc = "create", !.orderItems = items]]
  /\ UNCHANGED <<orders, intentCount, intentDoc, refundCalls, verReq, reserved,
                 restocked>>

StockRelease(s) ==
  /\ payReq[s].pc = "create"
  /\ BatchCommits(bakeryItems, payReq[s].orderItems)
  /\ bakeryItems' = RestockItems(bakeryItems, payReq[s].orderItems)
  /\ payReq' = [payReq EXCEPT ![s] = [IdlePay EXCEPT !.pc = "done"]]
  /\ UNCHANGED <<orders, intentCount, intentDoc, refundCalls, verReq, started,
                 reserved, restocked>>

StockNext == \E s \in Slots : StockReserve(s) \/ StockRelease(s)

SpecStock == Init /\ [][StockNext]_vars

\* Quantity of item i that the slots of S have reserved and not released.
RECURSIVE Outstanding(_, _)
Outstanding(S, i) ==
  IF S = {} THEN 0
  ELSE LET s == CHOOSE x \in S : TRUE
       IN (IF payReq[s].pc = "create" THEN BagOf(payReq[s].orderItems, i) ELSE 0)
          + Outstanding(S \ {s}, i)

\* C12: restockItems(items) after decrementStock(items) brings every item back
\* to its quantity before the decrement, whatever reservations and releases of
\* others came in between: at all times the quantity is the initial one less
\* what is reserved and not yet released.
C12_ReleaseUndoesReserve ==
  \A i \in DOMAIN bakeryItems :
    CurrentQty(bakeryItems, i) = InitQty - Outstanding(Slots, i)

\* One caller has reserved and released while the other still holds cake1 x 1:
\* the quantity is the initial one less 1.
C12_Witness ==
  \E s, t \in Slots :
    /\ payReq[s].pc = "done"
    /\ payReq[t].pc = "create"
    /\ payReq[t].orderItems = <<[id |-> "cake1", quantity |-> 1]>>
    /\ started = 2
    /\ bakeryItems["cake1"].quantity = InitQty - 1

\* ----------------------------------- a stock item without a quantity field
\* bakeryItems/cake1 exists but was written without a quantity field.
InitMissing ==
  /\ bakeryItems = [i \in StoredItemIds |->
                      [hasQuantity |-> FALSE, quantity |-> 0]]
  /\ orders = InitOrders
  /\ intentCount = 0
  /\ intentDoc = <<>>
  /\ refundCalls = 0
  /\ payReq = [s \in Slots |-> IdlePay]
  /\ verReq = [s \in Slots |-> IdleVerify]
  /\ started = 0
  /\ reserved = [o \in StoredOrderIds |-> ZeroBag]
  /\ restocked = [o \in StoredOrderIds |-> ZeroBag]

SpecMissing == InitMissing /\ [][PayNext]_vars

\* C18: when the availability check reads an item whose document has no
\* quantity field and the request asks for a positive quantity of it, the
\* request ends there with the 400 out-of-stock answer that names the item,
\* and has changed no stock quantity and called no gateway.
C18_MissingQuantityIsZero ==
  [][\A s \in Slots :
       LET req == payReq[s]
           item == req.orderItems[req.k]
       IN (req.pc = "check" /\ payReq'[s] # req
             /\ item.id \in DOMAIN bakeryItems
             /\ ~bakeryItems[item.id].hasQuantity
             /\ item.quantity > 0) =>
            /\ payReq'[s].pc = "done"
            /\ payReq'[s].response = Response(400, "out-of-stock", item.id)
            /\ payReq'[s].applied = ZeroBag
            /\ payReq'[s].gatewayCalls = 0
            /\ bakeryItems' = bakeryItems
            /\ intentCount' = intentCount
    ]_vars

\* A request for cake1 was refused as out of stock while cake1 still has no
\* quantity field.
C18_Witness ==
  \E s \in Slots :
    /\ payReq[s].pc = "done"
    /\ payReq[s].response = Response(400, "out-of-stock", "cake1")
    /\ payReq[s].applied = ZeroBag
    /\ ~bakeryItems["cake1"].hasQuantity
    /\ intentCount = 0

====
